---- MODULE Spec2Model ----
(***************************************************************************)
(* A model of the convex-polygon overlap analyzer: class Shape and the     *)
(* friend functions Analyze, ProcessData, FindIntersection and Analyzer    *)
(* of src/src/BaseClassShape.h, and Rectangle::Slope / SanityCheck of      *)
(* src/DerivedClassRectangle.cpp.                                          *)
(*                                                                         *)
(* Coordinates are small integers, which single-precision floats hold      *)
(* exactly; the quotients the code forms (slopes, intercepts, intersection *)
(* coordinates) are modelled as exact rationals <<num, den>> in lowest     *)
(* terms with den > 0, so the model abstracts from float rounding.         *)
(***************************************************************************)
EXTENDS Integers, Sequences, FiniteSets, TLC

\* ------------------------------------------------------------------ bounds
\* The coordinates of a rectangle range over 0 .. MaxCoord.
MaxCoord == 3
\* The coordinates of any other polygon range over 0 .. MaxPolyCoord.
MaxPolyCoord == 2
\* Direct calls of Analyze made on one pair of shapes.
MaxCalls == 2
\* Rounds of the input loop of the Rectangle constructor.
MaxRounds == 1

\* -------------------------------------------------------------- rationals
Abs(n) == IF n < 0 THEN -n ELSE n

RECURSIVE Gcd(_, _)
Gcd(a, b) == IF b = 0 THEN a ELSE Gcd(b, a % b)

\* The float n / d, d # 0, in lowest terms with a positive denominator.
Norm(n, d) ==
    LET g == Gcd(Abs(n), Abs(d))
        s == IF d < 0 THEN -1 ELSE 1
    IN  << (s * n) \div g, (s * d) \div g >>

\* An integer coordinate read as a float.
Rat(i) == << i, 1 >>

RAdd(p, q) == Norm(p[1] * q[2] + q[1] * p[2], p[2] * q[2])
RSub(p, q) == Norm(p[1] * q[2] - q[1] * p[2], p[2] * q[2])
RMul(p, q) == Norm(p[1] * q[1], p[2] * q[2])
RDiv(p, q) == Norm(p[1] * q[2], p[2] * q[1])
RLe(p, q)  == p[1] * q[2] <= q[1] * p[2]
RGe(p, q)  == RLe(q, p)

\* The sentinel 0xdeadbeef: a float far outside the coordinate range. It is
\* only ever assigned and compared for equality, never used in arithmetic,
\* and is modelled as a pair no quotient can equal.
INV == << 1, 0 >>

\* ----------------------------------------------------------------- Shape
\* enum CollisionType { adj, contain, apart, none }
CollisionType == { "adj", "contain", "apart", "none" }

\* Shape (unsigned int num): mNumSides sides, 2 * mNumSides coordinates,
\* and a candidate-edge vector that starts empty.
Shape(num, points) ==
    [ mNumSides |-> num, mPoints |-> points, mIsectEdge |-> << >> ]

\* mPoints[k] for the C++ 0-based index k.
At(S, k) == S.mPoints[k + 1]

\* The end points of the edge that starts at vertex index.
X1(S, index) == At(S, 2 * index)
Y1(S, index) == At(S, 2 * index + 1)
X2(S, index) == At(S, (2 * index + 2) % (2 * S.mNumSides))
Y2(S, index) == At(S, (2 * index + 3) % (2 * S.mNumSides))

\* bool Shape::LiesOnEdge (float x, float y, int index) const
LiesOnEdge(S, x, y, index) ==
    LET x1 == Rat(X1(S, index))
        y1 == Rat(Y1(S, index))
        x2 == Rat(X2(S, index))
        y2 == Rat(Y2(S, index))
    IN  /\ (RGe(x, x1) /\ RLe(x, x2)) \/ (RGe(x, x2) /\ RLe(x, x1))
        /\ (RGe(y, y1) /\ RLe(y, y2)) \/ (RGe(y, y2) /\ RLe(y, y1))

\* --------------------------------------------------------------- Analyze
\* One pass of the outer loop of Analyze for edge i of S against T: the dot
\* product dotprod = (rot_x * (x - x1)) + (rot_y * (y - y1)) of every vertex
\* with the rotated edge (rot_x = y2 - y1, rot_y = x1 - x2), and the three
\* values the loop body leaves behind:
\*   sum_A   the sum over the vertices of S, reduced by sum_A > 0 ? 1 : -1;
\*   sum_B   +1 for each vertex of T with a positive dot product, -1 for
\*           each with a negative one;
\*   adj_ct  the vertices of T with a zero dot product that LiesOnEdge.
RECURSIVE SumSeq(_, _)
SumSeq(f, j) == IF j < 0 THEN 0 ELSE f[j] + SumSeq(f, j - 1)

EdgeScan(S, i, T) ==
    LET x1    == X1(S, i)
        y1    == Y1(S, i)
        rot_x == Y2(S, i) - y1
        rot_y == x1 - X2(S, i)
        dA == [ j \in 0 .. S.mNumSides - 1 |->
                  rot_x * (At(S, 2 * j) - x1) + rot_y * (At(S, 2 * j + 1) - y1) ]
        dB == [ j \in 0 .. T.mNumSides - 1 |->
                  rot_x * (At(T, 2 * j) - x1) + rot_y * (At(T, 2 * j + 1) - y1) ]
    IN  [ sum_A  |-> IF SumSeq(dA, S.mNumSides - 1) > 0 THEN 1 ELSE -1,
          sum_B  |-> SumSeq([ j \in 0 .. T.mNumSides - 1 |->
                              IF dB[j] > 0 THEN 1 ELSE IF dB[j] < 0 THEN -1 ELSE 0 ],
                            T.mNumSides - 1),
          adj_ct |-> Cardinality({ j \in 0 .. T.mNumSides - 1 :
                        /\ dB[j] = 0
                        /\ LiesOnEdge(S, Rat(At(T, 2 * j)), Rat(At(T, 2 * j + 1)), i) }) ]

\* sum_temp = sum_B > 0 ? 1 : -1
SumTemp(sum_B) == IF sum_B > 0 THEN 1 ELSE -1

\* The separating-line test with the sign of sum_A dropped (mutant).
IsApartSameSide(sum_A, sum_B, n) == sum_B = sum_A * n

\* if (sum_B == -sum_A * B.mNumSides) return apart
IsApart(sum_A, sum_B, n) == sum_B = (-sum_A) * n

\* if (contain_ct == B.mNumSides) return contain
ContainDone(contain_ct, A, B) == contain_ct = B.mNumSides

\* Analyze (A, B) from edge i on, with contain_ct votes so far and list the
\* contents of A.mIsectEdge: the value returned and A.mIsectEdge at return.
RECURSIVE AnalyzeFrom(_, _, _, _, _)
AnalyzeFrom(A, B, i, contain_ct, list) ==
    IF i = A.mNumSides
    THEN [ ret  |-> IF ContainDone(contain_ct, A, B) THEN "contain" ELSE "none",
           list |-> list ]
    ELSE LET e      == EdgeScan(A, i, B)
             sum_A  == e.sum_A
             sum_B  == e.sum_B
             adj_ct == e.adj_ct
         IN  IF IsApart(sum_A, sum_B, B.mNumSides)
             THEN [ ret |-> "apart", list |-> list ]
             ELSE IF adj_ct = 2
             THEN IF SumTemp(sum_B) = -sum_A
                  THEN [ ret |-> "adj", list |-> list ]
                  ELSE AnalyzeFrom(A, B, i + 1, contain_ct, Append(list, i))
             ELSE IF sum_B = sum_A * B.mNumSides
             THEN AnalyzeFrom(A, B, i + 1, contain_ct + 1, list)
             ELSE AnalyzeFrom(A, B, i + 1, contain_ct, Append(list, i))

\* CollisionType Analyze (Shape& A, const Shape& B): pushes onto whatever
\* A.mIsectEdge already holds.
Analyze(A, B) == AnalyzeFrom(A, B, 0, 0, A.mIsectEdge)

\* ----------------------------------------------------------- ProcessData
\* ProcessData that reports which = 0 whichever call decided (mutant).
ProcessDataWhich0(A, B) ==
    LET r1 == Analyze(A, B)
        A1 == [ A EXCEPT !.mIsectEdge = r1.list ]
    IN  IF r1.ret # "none"
        THEN [ ret |-> r1.ret, which |-> 0, A |-> A1, B |-> B ]
        ELSE LET r2 == Analyze(B, A)
             IN  [ ret |-> r2.ret, which |-> 0, A |-> A1,
                   B |-> [ B EXCEPT !.mIsectEdge = r2.list ] ]

\* CollisionType ProcessData (Shape& A, Shape& B, int *which). Analyze reads
\* only the vertices of its second argument, which the first call left alone.
ProcessData(A, B) ==
    LET r1 == Analyze(A, B)
        A1 == [ A EXCEPT !.mIsectEdge = r1.list ]
    IN  IF r1.ret # "none"
        THEN [ ret |-> r1.ret, which |-> 0, A |-> A1, B |-> B ]
        ELSE LET r2 == Analyze(B, A)
             IN  [ ret |-> r2.ret, which |-> 1, A |-> A1,
                   B |-> [ B EXCEPT !.mIsectEdge = r2.list ] ]

\* ------------------------------------------------------ FindIntersection
\* The bounds test of the axis-aligned crossing dropped (mutant).
FastPathOnEdgesAlways(A, B, x, y, A_index, B_index) == TRUE

\* if (A.LiesOnEdge(intr_x, intr_y, A_index) == true &&
\*     B.LiesOnEdge(intr_x, intr_y, B_index) == true) on the path of a
\* vertical edge meeting a horizontal one.
FastPathOnEdges(A, B, x, y, A_index, B_index) ==
    LiesOnEdge(A, x, y, A_index) /\ LiesOnEdge(B, x, y, B_index)

\* The same test on the general path.
OnEdges(A, B, x, y, A_index, B_index) ==
    LiesOnEdge(A, x, y, A_index) /\ LiesOnEdge(B, x, y, B_index)

\* if ((intr_x == A_x2 && intr_y == A_y2) || (intr_x == B_x2 && intr_y == B_y2))
IsSecondEndPoint(A, B, x, y, A_index, B_index) ==
    \/ x = Rat(X2(A, A_index)) /\ y = Rat(Y2(A, A_index))
    \/ x = Rat(X2(B, B_index)) /\ y = Rat(Y2(B, B_index))

\* One point as printed, with the pair of candidate edges it came from.
Emit(x, y, A_index, B_index) ==
    << [ x |-> x, y |-> y, a |-> A_index, b |-> B_index ] >>

\* The body of the inner loop: what one pair of candidate edges prints.
EdgePair(A, B, A_index, B_index) ==
    LET A_x1 == X1(A, A_index)
        A_y1 == Y1(A, A_index)
        A_x2 == X2(A, A_index)
        A_y2 == Y2(A, A_index)
        B_x1 == X1(B, B_index)
        B_y1 == Y1(B, B_index)
        B_x2 == X2(B, B_index)
        B_y2 == Y2(B, B_index)
        A_sloped == A_x1 # A_x2 /\ A_y1 # A_y2
        B_sloped == B_x1 # B_x2 /\ B_y1 # B_y2
        A_slope == IF A_sloped THEN Norm(A_y1 - A_y2, A_x1 - A_x2) ELSE INV
        A_intercept == RSub(Rat(A_y1), RMul(A_slope, Rat(A_x1)))
        B_slope == IF B_sloped THEN Norm(B_y1 - B_y2, B_x1 - B_x2) ELSE INV
        B_intercept == RSub(Rat(B_y1), RMul(B_slope, Rat(B_x1)))
        \* intr_x and intr_y once both edges have been looked at
        x0 == IF B_x1 = B_x2 THEN Rat(B_x1)
              ELSE IF A_x1 = A_x2 THEN Rat(A_x1) ELSE INV
        y0 == IF B_x1 # B_x2 /\ B_y1 = B_y2 THEN Rat(B_y1)
              ELSE IF A_x1 # A_x2 /\ A_y1 = A_y2 THEN Rat(A_y1) ELSE INV
    IN  IF (A_x1 = A_x2 /\ B_x1 = B_x2) \/ (A_y1 = A_y2 /\ B_y1 = B_y2)
        THEN << >>
        ELSE IF \/ x0 = Rat(A_x1) /\ y0 = Rat(B_y1)
                \/ x0 = Rat(B_x1) /\ y0 = Rat(A_y1)
        THEN IF FastPathOnEdges(A, B, x0, y0, A_index, B_index)
             THEN Emit(x0, y0, A_index, B_index)
             ELSE << >>
        ELSE IF A_sloped /\ B_sloped /\ A_slope = B_slope
        THEN << >>   \* the quotient is an infinity or a NaN: on no edge
        ELSE LET x == IF x0 = Rat(A_x1) /\ B_slope # INV THEN x0
                      ELSE IF x0 = Rat(B_x1) /\ A_slope # INV THEN x0
                      ELSE IF y0 = Rat(A_y1) /\ B_slope # INV
                      THEN RDiv(RSub(Rat(A_y1), B_intercept), B_slope)
                      ELSE IF y0 = Rat(B_y1) /\ A_slope # INV
                      THEN RDiv(RSub(Rat(B_y1), A_intercept), A_slope)
                      ELSE RDiv(RSub(B_intercept, A_intercept),
                                RSub(A_slope, B_slope))
                 y == IF x0 = Rat(A_x1) /\ B_slope # INV
                      THEN RAdd(RMul(B_slope, x0), B_intercept)
                      ELSE IF x0 = Rat(B_x1) /\ A_slope # INV
                      THEN RAdd(RMul(A_slope, x0), A_intercept)
                      ELSE IF y0 = Rat(A_y1) /\ B_slope # INV THEN y0
                      ELSE IF y0 = Rat(B_y1) /\ A_slope # INV THEN y0
                      ELSE RAdd(RMul(A_slope, x), A_intercept)
             IN  IF IsSecondEndPoint(A, B, x, y, A_index, B_index)
                 THEN << >>
                 ELSE IF OnEdges(A, B, x, y, A_index, B_index)
                 THEN Emit(x, y, A_index, B_index)
                 ELSE << >>

\* The inner loop, over B.mIsectEdge from position k on.
RECURSIVE InnerLoop(_, _, _, _)
InnerLoop(A, B, A_index, k) ==
    IF k > Len(B.mIsectEdge) THEN << >>
    ELSE EdgePair(A, B, A_index, B.mIsectEdge[k]) \o InnerLoop(A, B, A_index, k + 1)

\* The outer loop, over A.mIsectEdge from position k on.
RECURSIVE OuterLoop(_, _, _)
OuterLoop(A, B, k) ==
    IF k > Len(A.mIsectEdge) THEN << >>
    ELSE InnerLoop(A, B, A.mIsectEdge[k], 1) \o OuterLoop(A, B, k + 1)

\* void FindIntersection (const Shape& A, const Shape& B): the points
\* printed, in order.
FindIntersection(A, B) == OuterLoop(A, B, 1)

\* ------------------------------------------------------------- Rectangle
\* float Rectangle::Slope (int index): INV for an edge parallel to the
\* y-axis, 0 for one parallel to the x-axis, else (y1 - y2) / (x1 - x2).
Slope(R, index) ==
    LET x1 == At(R, 2 * index)
        x2 == At(R, (2 * index + 2) % 8)
        y1 == At(R, 2 * index + 1)
        y2 == At(R, (2 * index + 3) % 8)
    IN  IF x1 = x2 THEN INV
        ELSE IF y1 = y2 THEN Rat(0)
        ELSE Norm(y1 - y2, x1 - x2)

\* SanityCheck without the test of the second pair of opposite sides
\* (mutant).
SanityCheckOnePair(R) ==
    LET slope == [ i \in 0 .. 3 |-> Slope(R, i) ]
    IN  IF slope[0] # slope[2] THEN FALSE
        ELSE IF slope[0] = Rat(0) \/ slope[0] = INV
        THEN IF slope[0] = Rat(0) THEN slope[1] = INV ELSE slope[1] = Rat(0)
        ELSE IF slope[1] = Rat(0) \/ slope[1] = INV THEN FALSE
        ELSE RMul(slope[0], slope[1]) = Rat(-1)

\* bool Rectangle::SanityCheck ( )
SanityCheck(R) ==
    LET slope == [ i \in 0 .. 3 |-> Slope(R, i) ]
    IN  IF slope[0] # slope[2] THEN FALSE
        ELSE IF slope[1] # slope[3] THEN FALSE
        ELSE IF slope[0] = Rat(0) \/ slope[0] = INV
        THEN IF slope[0] = Rat(0) THEN slope[1] = INV ELSE slope[1] = Rat(0)
        ELSE IF slope[1] = Rat(0) \/ slope[1] = INV THEN FALSE
        ELSE RMul(slope[0], slope[1]) = Rat(-1)

\* ---------------------------------------------------------------- inputs
\* The z-component of (q - p) x (r - p) for vertices i, i+1, i+2 of the
\* coordinate list pts of an n-sided polygon.
Turn(pts, n, i) ==
    LET px == pts[2 * i + 1]
        py == pts[2 * i + 2]
        qx == pts[((2 * i + 2) % (2 * n)) + 1]
        qy == pts[((2 * i + 3) % (2 * n)) + 1]
        rx == pts[((2 * i + 4) % (2 * n)) + 1]
        ry == pts[((2 * i + 5) % (2 * n)) + 1]
    IN  (qx - px) * (ry - py) - (qy - py) * (rx - px)

\* The vertex lists the analysis is written for: a convex polygon given in
\* one rotational order, clockwise or anti-clockwise.
IsConvex(pts, n) ==
    \/ \A i \in 0 .. n - 1 : Turn(pts, n, i) > 0
    \/ \A i \in 0 .. n - 1 : Turn(pts, n, i) < 0

\* The vertex list starts at the least vertex (by x, then by y).
FromLeast(pts, n) ==
    \A i \in 1 .. n - 1 :
        \/ pts[1] < pts[2 * i + 1]
        \/ pts[1] = pts[2 * i + 1] /\ pts[2] < pts[2 * i + 2]

\* The convex shapes with num sides and vertices on the grid 0 .. max.
Polygons(num, max) ==
    { Shape(num, pts) :
        pts \in { q \in [ 1 .. 2 * num -> 0 .. max ] :
                    IsConvex(q, num) /\ FromLeast(q, num) } }

\* The rectangles Rectangle::Rectangle accepts.
Rectangles == { R \in Polygons(4, MaxCoord) : SanityCheck(R) }

\* The other convex polygons a class derived from Shape may hold: triangles
\* and quadrilaterals.
Triangles == Polygons(3, MaxPolyCoord)
Quadrilaterals == Polygons(4, MaxPolyCoord)

\* What Analyzer may be given.
Shapes == Rectangles \cup Triangles \cup Quadrilaterals

\* ----------------------------------------------------------------- state
VARIABLES
    A,       \* Shape A
    B,       \* Shape B
    ret,     \* the CollisionType the last call returned ("unset" before any)
    which,   \* *which as ProcessData left it
    out,     \* the points FindIntersection printed
    pushed,  \* the edges the last Analyze (A, B) pushed onto A.mIsectEdge
    calls,   \* the calls made on this pair of shapes
    rect,    \* the Rectangle under construction
    sane,    \* what SanityCheck said of the last input ("unset" before any)
    rounds   \* the rounds of the input loop so far

vars == << A, B, ret, which, out, pushed, calls, rect, sane, rounds >>

NoRect == Shape(4, << 0, 0, 0, 0, 0, 0, 0, 0 >>)

\* UserInput: two shapes just constructed, their candidate lists empty.
Init ==
    /\ A \in Shapes
    /\ B \in Shapes
    /\ ret = "unset"
    /\ which = 0
    /\ out = << >>
    /\ pushed = << >>
    /\ calls = 0
    /\ rect = NoRect
    /\ sane = "unset"
    /\ rounds = 0

\* void Analyzer (Shape& A, Shape& B), called once on the two shapes:
\* ProcessData, and FindIntersection when it returns none.
Analyzer ==
    /\ calls = 0
    /\ \E r \in { ProcessData(A, B) } :
           /\ A' = r.A
           /\ B' = r.B
           /\ ret' = r.ret
           /\ which' = r.which
           /\ out' = IF r.ret = "none" THEN FindIntersection(r.A, r.B) ELSE << >>
    /\ calls' = 1
    /\ UNCHANGED << pushed, rect, sane, rounds >>

Next == Analyzer

Spec == Init /\ [][Next]_vars

\* ------------------------------------------- Analyze called on its own
\* A direct call Analyze (A, B); nothing between two calls empties
\* A.mIsectEdge.
CallAnalyze ==
    /\ calls < MaxCalls
    /\ \E r \in { Analyze(A, B) } :
           /\ A' = [ A EXCEPT !.mIsectEdge = r.list ]
           /\ ret' = r.ret
           /\ pushed' = SubSeq(r.list, Len(A.mIsectEdge) + 1, Len(r.list))
    /\ calls' = calls + 1
    /\ UNCHANGED << B, which, out, rect, sane, rounds >>

NextAnalyze == CallAnalyze

SpecAnalyze == Init /\ [][NextAnalyze]_vars

\* ------------------------------------------- the Rectangle constructor
\* No rectangle read yet.
InitRectangle ==
    /\ A = NoRect
    /\ B = NoRect
    /\ ret = "unset"
    /\ which = 0
    /\ out = << >>
    /\ pushed = << >>
    /\ calls = 0
    /\ rect = NoRect
    /\ sane = "unset"
    /\ rounds = 0

\* Rectangle::Rectangle ( ): one round of the input loop. Eight numbers are
\* read into mPoints and SanityCheck decides whether the loop ends.
ReadRectangle ==
    /\ sane # "yes"
    /\ rounds < MaxRounds
    /\ \E pts \in [ 1 .. 8 -> 0 .. MaxCoord ] :
          /\ rect' = Shape(4, pts)
          /\ sane' = IF SanityCheck(Shape(4, pts)) THEN "yes" ELSE "no"
    /\ rounds' = rounds + 1
    /\ UNCHANGED << A, B, ret, which, out, pushed, calls >>

NextRectangle == ReadRectangle

SpecRectangle == InitRectangle /\ [][NextRectangle]_vars

\* ==================================================================
\* Geometry the properties are stated in, independent of the sums and
\* counters of Analyze.
Sgn(n) == IF n > 0 THEN 1 ELSE IF n < 0 THEN -1 ELSE 0

Vertices(S) == 0 .. S.mNumSides - 1
VX(S, j) == At(S, 2 * j)
VY(S, j) == At(S, 2 * j + 1)

\* The side of the line through edge i of S on which the point (px, py)
\* lies: 1, -1, or 0 on the line.
Side(S, i, px, py) ==
    Sgn((X2(S, i) - X1(S, i)) * (py - Y1(S, i))
        - (Y2(S, i) - Y1(S, i)) * (px - X1(S, i)))

\* The side of edge i on which S itself lies: that of the vertex after the
\* edge, which a convex polygon never has on the line.
OwnSide(S, i) ==
    LET k == (i + 2) % S.mNumSides IN Side(S, i, VX(S, k), VY(S, k))

\* Vertex j of T lies on edge i of S: on its line, between its end points.
VertexOnEdge(S, i, T, j) ==
    LET px == VX(T, j)
        py == VY(T, j)
    IN  /\ Side(S, i, px, py) = 0
        /\ (X1(S, i) <= px /\ px <= X2(S, i)) \/ (X2(S, i) <= px /\ px <= X1(S, i))
        /\ (Y1(S, i) <= py /\ py <= Y2(S, i)) \/ (Y2(S, i) <= py /\ py <= Y1(S, i))

\* The line through edge i of S has every vertex of T strictly on the side
\* opposite to S.
SeparatingEdge(S, i, T) ==
    \A j \in Vertices(T) : Side(S, i, VX(T, j), VY(T, j)) = -OwnSide(S, i)

Separates(S, T) == \E i \in Vertices(S) : SeparatingEdge(S, i, T)

\* Every vertex of T lies strictly on the own side of every edge line of S.
StrictlyInside(S, T) ==
    \A i \in Vertices(S) : \A j \in Vertices(T) :
        Side(S, i, VX(T, j), VY(T, j)) = OwnSide(S, i)

\* The two polygons touch: a vertex of one lies on an edge of the other.
Touch(S, T) ==
    \/ \E i \in Vertices(S) : \E j \in Vertices(T) : VertexOnEdge(S, i, T, j)
    \/ \E i \in Vertices(T) : \E j \in Vertices(S) : VertexOnEdge(T, i, S, j)

\* The same polygon as a newly constructed object.
New(S) == Shape(S.mNumSides, S.mPoints)

\* The same polygon with its vertices listed in the reverse rotational order.
Reversed(S) ==
    Shape(S.mNumSides,
          [ k \in 1 .. 2 * S.mNumSides |->
              LET j == S.mNumSides - 1 - ((k - 1) \div 2)
              IN  IF k % 2 = 1 THEN VX(S, j) ELSE VY(S, j) ])

\* The polygon that a result names as the outer one ("-" when none is).
Outer(r, w) == IF r # "contain" THEN "-" ELSE IF w = 0 THEN "first" ELSE "second"

C2_ContainExact ==
    calls = 1 =>
        /\ (ret = "contain" /\ which = 0) <=> StrictlyInside(A, B)
        /\ (ret = "contain" /\ which = 1) <=>
               (Analyze(New(A), New(B)).ret = "none" /\ StrictlyInside(B, A))

SharedEdge(S, i, T) ==
    LET on == { j \in Vertices(T) : VertexOnEdge(S, i, T, j) }
    IN  /\ Cardinality(on) = 2
        /\ \A j \in Vertices(T) \ on :
               Side(S, i, VX(T, j), VY(T, j)) = -OwnSide(S, i)

\* C4: Analyze (A, B) returns adj only if some edge of A holds exactly two
\* vertices of B and every other vertex of B lies strictly on the side of
\* that edge's line opposite to A; never when the other vertices of B lie on
\* both sides of the line.
C4_AdjOnlyIfShared ==
    (calls >= 1 /\ ret = "adj") => \E i \in Vertices(A) : SharedEdge(A, i, B)

\* ------------------------------------------------------------------ C5
\* ProcessData (S, T) reports what Analyzer reported.
SameAs(S, T) ==
    LET r == ProcessData(S, T) IN r.ret = ret /\ Outer(r.ret, r.which) = Outer(ret, which)

\* C5: the CollisionType and the outer polygon that ProcessData (A, B)
\* reports are the same when the vertices of A, of B, or of both are listed
\* in the reverse rotational order.
C5_WindingIndependent ==
    calls = 1 =>
        /\ SameAs(Reversed(A), New(B))
        /\ SameAs(New(A), Reversed(B))
        /\ SameAs(Reversed(A), Reversed(B))

\* ------------------------------------------------------------------ C6
\* C6: after any sequence of Analyze calls the candidate list of the subject
\* holds exactly the edges the most recent call classified as candidates,
\* each once.
C6_ListOfLastCall == calls >= 1 => A.mIsectEdge = pushed

\* ------------------------------------------------------------------ C7
\* The float q lies between the coordinates a and b, ends included.
Between(a, b, q) ==
    \/ a * q[2] <= q[1] /\ q[1] <= b * q[2]
    \/ b * q[2] <= q[1] /\ q[1] <= a * q[2]

\* The point (x, y) lies in the bounding box of edge i of S.
InBox(S, i, x, y) ==
    Between(X1(S, i), X2(S, i), x) /\ Between(Y1(S, i), Y2(S, i), y)

IsVertical(S, i) == X1(S, i) = X2(S, i)
IsHorizontal(S, i) == Y1(S, i) = Y2(S, i)

\* Printed point k came from a vertical edge meeting a horizontal one.
AxisPair(k) ==
    \/ IsVertical(A, out[k].a) /\ IsHorizontal(B, out[k].b)
    \/ IsHorizontal(A, out[k].a) /\ IsVertical(B, out[k].b)

\* C7: every point FindIntersection prints for a pair of candidate edges
\* (a of A, b of B) lies within the bounding box of edge a and within that
\* of edge b, on the path for a vertical edge meeting a horizontal one and
\* on the general path alike.
C7_PrintedOnBothEdges ==
    calls = 1 =>
        \A k \in 1 .. Len(out) :
            /\ InBox(A, out[k].a, out[k].x, out[k].y)
            /\ InBox(B, out[k].b, out[k].x, out[k].y)

\* One run prints a point from each of the two paths.
C7_Witness ==
    /\ calls = 1
    /\ \E k \in 1 .. Len(out) : AxisPair(k)
    /\ \E k \in 1 .. Len(out) : ~AxisPair(k)

\* ------------------------------------------------------------------ C8
\* Edge i of S and edge j of T are not parallel.
Det(S, i, T, j) ==
    (X2(S, i) - X1(S, i)) * (Y2(T, j) - Y1(T, j))
    - (Y2(S, i) - Y1(S, i)) * (X2(T, j) - X1(T, j))

\* The point where the lines through edge i of S and edge j of T meet.
Meet(S, i, T, j) ==
    LET d == Det(S, i, T, j)
        n == (X1(T, j) - X1(S, i)) * (Y2(T, j) - Y1(T, j))
             - (Y1(T, j) - Y1(S, i)) * (X2(T, j) - X1(T, j))
    IN  << Norm(X1(S, i) * d + n * (X2(S, i) - X1(S, i)), d),
           Norm(Y1(S, i) * d + n * (Y2(S, i) - Y1(S, i)), d) >>

\* The points at which an edge of S meets a non-parallel edge of T within
\* both segments.
Crossings(S, T) ==
    { Meet(S, i, T, j) : << i, j >> \in
        { e \in Vertices(S) \X Vertices(T) :
            /\ Det(S, e[1], T, e[2]) # 0
            /\ LET m == Meet(S, e[1], T, e[2])
               IN  InBox(S, e[1], m[1], m[2]) /\ InBox(T, e[2], m[1], m[2]) } }

Printed == { << out[k].x, out[k].y >> : k \in 1 .. Len(out) }

\* C8: when ProcessData returns none, FindIntersection prints every point
\* at which an edge of A meets a non-parallel edge of B within both
\* segments.
C8_EveryCrossingPrinted ==
    (calls = 1 /\ ret = "none") => Crossings(A, B) \subseteq Printed

\* ------------------------------------------------------------------ C9
\* The slope of edge i of the quadrilateral R, told apart as the sanity check
\* is described: parallel to the y-axis, parallel to the x-axis, or dy / dx.
DX(R, i) == X2(R, i) - X1(R, i)
DY(R, i) == Y2(R, i) - Y1(R, i)

EqualSlope(R, i, j) ==
    IF DX(R, i) = 0 \/ DX(R, j) = 0
    THEN DX(R, i) = 0 /\ DX(R, j) = 0
    ELSE DY(R, i) * DX(R, j) = DY(R, j) * DX(R, i)

Perpendicular(R, i, j) ==
    \/ DX(R, i) # 0 /\ DY(R, i) = 0 /\ DX(R, j) = 0
    \/ DX(R, i) = 0 /\ DX(R, j) # 0 /\ DY(R, j) = 0
    \/ /\ DX(R, i) # 0 /\ DY(R, i) # 0
       /\ DX(R, j) # 0 /\ DY(R, j) # 0
       /\ DY(R, i) * DY(R, j) = -(DX(R, i) * DX(R, j))

\* C9: SanityCheck returns true exactly when edges 0 and 2 have equal
\* slope, edges 1 and 3 have equal slope, and edges 0 and 1 are
\* perpendicular; it rejects (0,0)(1,0)(1,2)(0,1) and accepts
\* (0,0)(2,0)(2,1)(0,1).
C9_SanityCheckExact ==
    sane # "unset" =>
        /\ sane = "yes" <=>
               /\ EqualSlope(rect, 0, 2)
               /\ EqualSlope(rect, 1, 3)
               /\ Perpendicular(rect, 0, 1)
        /\ rect.mPoints = << 0, 0, 1, 0, 1, 2, 0, 1 >> => sane = "no"
        /\ rect.mPoints = << 0, 0, 2, 0, 2, 1, 0, 1 >> => sane = "yes"

\* A rectangle at an angle to the axes is accepted.
C9_Witness ==
    /\ sane = "yes"
    /\ DX(rect, 0) # 0 /\ DY(rect, 0) # 0
    /\ DX(rect, 1) # 0 /\ DY(rect, 1) # 0

\* ----------------------------------------------------------------- C10
\* C10: FindIntersection never prints, for a pair of candidate edges
\* (a, b), the second end point of edge a or of edge b, the pairs of a
\* vertical and a horizontal edge included.
C10_NoSecondEndPoint ==
    calls = 1 =>
        \A k \in 1 .. Len(out) :
            /\ << out[k].x, out[k].y >> #
                   << Rat(X2(A, out[k].a)), Rat(Y2(A, out[k].a)) >>
            /\ << out[k].x, out[k].y >> #
                   << Rat(X2(B, out[k].b)), Rat(Y2(B, out[k].b)) >>

====
